---- MODULE Spec2Model ----
(***************************************************************************)
(* Model of snowflake-to-googlesheet/main.py: one run of main(), from the  *)
(* loading of config.json to the report of the sheet write.  Every call of *)
(* an external library (file system, cryptography, Snowflake, gspread) is  *)
(* a step that either completes or raises; the tables, the configuration   *)
(* file and the spreadsheet's previous state are the inputs.               *)
(***************************************************************************)
EXTENDS Integers, Sequences, FiniteSets, TLC

\* ------------------------------------------------------------------ bounds
\* Longest query result enumerated cell by cell.
MaxRows == 2
\* Most configuration keys left out of config.json.
MaxMissing == 1
\* Row count of the tall query results (around the 100-row minimum).
TallRows == 100
\* Column count of the wide query results (around the 10-column minimum).
WideCols == 9

\* --------------------------------------------------------- program constants
\* add_worksheet(rows=str(max(100, len(df) + 1)), ...)
MinSheetRows == 100
\* add_worksheet(cols=str(max(10, len(df.columns) + 1)))
MinSheetCols == 10

\* ------------------------------------------------------------------ helpers
Max(a, b) == IF a >= b THEN a ELSE b

Range(s) == {s[i] : i \in 1..Len(s)}

SeqUpTo(S, n) == UNION {[1..k -> S] : k \in 0..n}

\* ------------------------------------------------------------ configuration
SnowflakeKeys ==
    {"SNOWFLAKE_USER", "SNOWFLAKE_ACCOUNT", "SNOWFLAKE_WAREHOUSE",
     "SNOWFLAKE_DATABASE", "SNOWFLAKE_SCHEMA"}

RequiredKeys ==
    SnowflakeKeys \cup {"RSA_KEY_PATH", "GOOGLE_KEYFILE_PATH", "SPREADSHEET_URL", "SHEET_NAME"}

\* The contents config.json can have: unreadable or not JSON (ok = FALSE), or a
\* mapping that lacks at most MaxMissing of the keys main reads.
ConfigFiles ==
    {[ok |-> FALSE, keys |-> {}]} \cup
    {[ok |-> TRUE, keys |-> RequiredKeys \ m] :
        m \in {x \in SUBSET RequiredKeys : Cardinality(x) <= MaxMissing}}

\* config[k] succeeds exactly when k is a key of the mapping (KeyError otherwise).
HasKeyAlways(cfg, k) == TRUE
HasKey(cfg, k) == k \in cfg

\* The value of config["SHEET_NAME"].
SheetName == "Report"

\* date.today().isoformat() of the run.
Today == "2024-01-01"

\* ------------------------------------------------------------------- tables
\* A DataFrame: its column labels and its rows, both in order.
EmptyTable == [cols |-> <<>>, rows |-> <<>>]

CellValues == {"10", "20"}

\* Column labels of the enumerated query results; labels are distinct.
Headers ==
    {<<>>, <<"id">>, <<"id", "amount">>, <<"update_date">>,
     <<"id", "update_date">>, <<"update_date", "amount">>}

SmallTables ==
    UNION {{[cols |-> h, rows |-> r] :
                r \in SeqUpTo([1..Len(h) -> CellValues], MaxRows)} : h \in Headers}

WideHeader == <<"c1", "c2", "c3", "c4", "c5", "c6", "c7", "c8", "c9", "c10", "c11", "c12">>

PatternTable(R, C) ==
    [cols |-> SubSeq(WideHeader, 1, C),
     rows |-> [i \in 1..R |-> [j \in 1..C |-> IF (i + j) % 2 = 0 THEN "10" ELSE "20"]]]

\* Query results at the two sides of the minimum worksheet size.
LargeTables ==
    {PatternTable(R, C) : R \in {TallRows - 1, TallRows}, C \in {WideCols - 1, WideCols}}

Tables == SmallTables \cup LargeTables

ColumnIndex(cols, name) == CHOOSE i \in 1..Len(cols) : cols[i] = name

\* df["update_date"] = value: a new label is appended as the last column, an
\* existing label has its column overwritten in place; every row gets value.
SetUpdateDate(t, value) ==
    IF "update_date" \in Range(t.cols)
    THEN LET k == ColumnIndex(t.cols, "update_date")
         IN [cols |-> t.cols,
             rows |-> [i \in 1..Len(t.rows) |-> [t.rows[i] EXCEPT ![k] = value]]]
    ELSE [cols |-> Append(t.cols, "update_date"),
          rows |-> [i \in 1..Len(t.rows) |-> Append(t.rows[i], value)]]

\* data = [df.columns.values.tolist()] + df.values.tolist()
SheetData(t) == <<t.cols>> \o t.rows

\* -------------------------------------------------------------- spreadsheet
\* A worksheet: its grid size and its occupied cells, a function from
\* <<row, column>> to the cell's value.  A spreadsheet maps titles to worksheets.
NoCells == [c \in {} |-> "old"]

OldBlock == [c \in (1..(MaxRows + 3)) \X (1..4) |-> "old"]

OtherSheet == "Sheet1"

\* The spreadsheet before the run: the target worksheet is absent, present and
\* empty, or present with a block of earlier content; another worksheet exists.
InitialSpreadsheets ==
    LET other == [rows |-> 1000, cols |-> 26, cells |-> OldBlock]
    IN {[n \in {OtherSheet} |-> other]} \cup
       {[n \in {OtherSheet, SheetName} |->
            IF n = OtherSheet THEN other ELSE [rows |-> 1000, cols |-> 26, cells |-> c]] :
                c \in {NoCells, OldBlock}}

\* The cells a 2D block of values occupies when written with its first value at A1.
BlockCells(data) ==
    [c \in (1..Len(data)) \X (1..Len(data[1])) |-> data[c[1]][c[2]]]

\* worksheet.clear(): no cell of the worksheet stays occupied.
ClearKeeps(ss, name) == ss
Clear(ss, name) == [ss EXCEPT ![name].cells = NoCells]

\* spreadsheet.add_worksheet(title, rows, cols): a new empty worksheet.
AddWorksheet(ss, name, rows, cols) ==
    [n \in DOMAIN ss \cup {name} |->
        IF n = name THEN [rows |-> rows, cols |-> cols, cells |-> NoCells] ELSE ss[n]]

\* worksheet.update("A1", data): the block's cells are set, every other cell
\* keeps what it held.
Update(ss, name, data) ==
    LET old == ss[name].cells
        new == BlockCells(data)
    IN [ss EXCEPT ![name].cells =
            [c \in DOMAIN old \cup DOMAIN new |-> IF c \in DOMAIN new THEN new[c] ELSE old[c]]]

\* ----------------------------------------------------------------- logging
LogRecord(level, src) == [level |-> level, src |-> src]

\* ------------------------------------------------ overwrite_with_dataframe
\* Where an external call of overwrite_with_dataframe may raise: nowhere, in
\* the lookup (an API error), in clear, in add_worksheet or in update.
FailPoints(exists) ==
    {"none", "lookup", "update"} \cup (IF exists THEN {"clear"} ELSE {"add"})

\* spreadsheet.worksheet(sheet_name): the worksheet, WorksheetNotFound when no
\* worksheet has the title, or an API error.  WorksheetNotFound is raised by
\* the lookup only; clear, add_worksheet and update fail with an API error.
Lookup(ss, name, f) ==
    IF f = "lookup" THEN "APIError"
    ELSE IF name \in DOMAIN ss THEN "found" ELSE "WorksheetNotFound"

\* rows and cols handed to add_worksheet.
NewSheetRowsExact(t) == Len(t.rows) + 1
NewSheetRows(t) == Max(MinSheetRows, Len(t.rows) + 1)
NewSheetCols(t) == Max(MinSheetCols, Len(t.cols) + 1)

\* The inner try/except: look the worksheet up and clear it, or create it when
\* the lookup raises WorksheetNotFound.  exc is the exception leaving the block.
AcquireWorksheet(ss, name, t, f) ==
    LET l == Lookup(ss, name, f)
    IN CASE l = "APIError" ->
              [sheets |-> ss, exc |-> "APIError", calls |-> <<"worksheet">>,
               log |-> <<>>, acquired |-> FALSE]
         [] l = "found" ->
              IF f = "clear"
              THEN [sheets |-> ss, exc |-> "APIError", calls |-> <<"worksheet", "clear">>,
                    log |-> <<>>, acquired |-> FALSE]
              ELSE [sheets |-> Clear(ss, name), exc |-> "none",
                    calls |-> <<"worksheet", "clear">>,
                    log |-> <<LogRecord("INFO", "overwrite_with_dataframe")>>,
                    acquired |-> TRUE]
         [] l = "WorksheetNotFound" ->
              IF f = "add"
              THEN [sheets |-> ss, exc |-> "APIError",
                    calls |-> <<"worksheet", "add_worksheet">>,
                    log |-> <<>>, acquired |-> FALSE]
              ELSE [sheets |-> AddWorksheet(ss, name, NewSheetRows(t), NewSheetCols(t)),
                    exc |-> "none", calls |-> <<"worksheet", "add_worksheet">>,
                    log |-> <<LogRecord("INFO", "overwrite_with_dataframe")>>,
                    acquired |-> TRUE]

\* The body of the outer try: the inner block, then the update at A1.
OverwriteBody(ss, name, t, f) ==
    LET a == AcquireWorksheet(ss, name, t, f)
    IN IF a.exc # "none" THEN a @@ [updated |-> FALSE]
       ELSE IF f = "update"
            THEN [a EXCEPT !.exc = "APIError", !.calls = Append(@, "update")]
                    @@ [updated |-> FALSE]
            ELSE [a EXCEPT !.sheets = Update(a.sheets, name, SheetData(t)),
                           !.calls = Append(@, "update"),
                           !.log = Append(@, LogRecord("INFO", "overwrite_with_dataframe"))]
                    @@ [updated |-> TRUE]

\* except Exception: every exception the gspread calls raise is an Exception.
CatchesNotFoundOnly(e) == e = "WorksheetNotFound"
CatchesException(e) == e \in {"APIError", "WorksheetNotFound"}

\* overwrite_with_dataframe: True when the body completes; an exception the
\* outer handler catches is logged and turned into False.
OverwriteWithRollback(ss, name, t, f) ==
    LET b == OverwriteBody(ss, name, t, f)
    IN IF b.exc = "none"
       THEN b @@ [result |-> TRUE, propagated |-> "none"]
       ELSE [b EXCEPT !.sheets = ss,
                      !.log = Append(@, LogRecord("ERROR", "overwrite_with_dataframe"))]
               @@ [result |-> FALSE, propagated |-> "none"]
OverwriteWithDataframe(ss, name, t, f) ==
    LET b == OverwriteBody(ss, name, t, f)
    IN IF b.exc = "none"
       THEN b @@ [result |-> TRUE, propagated |-> "none"]
       ELSE IF CatchesException(b.exc)
            THEN [b EXCEPT !.log = Append(@, LogRecord("ERROR", "overwrite_with_dataframe"))]
                    @@ [result |-> FALSE, propagated |-> "none"]
            ELSE b @@ [result |-> FALSE, propagated |-> b.exc]

\* -------------------------------------------------------------------- state
VARIABLES
    pc,          \* the statement of main that runs next
    outcome,     \* "running", "returned" (main returned) or "raised" (uncaught exception)
    exc,         \* the exception that left main, "none" otherwise
    pending,     \* the exception in flight while the finally block runs
    configFile,  \* what config.json holds
    config,      \* the keys of the loaded config mapping
    log,         \* the log records written, in order
    calls,       \* the calls made to the warehouse and the spreadsheet service, in order
    connection,  \* "none", "open", "closed" or "close_failed"
    qres,        \* the table fetch_data returned
    df,          \* main's df
    sheets,      \* the spreadsheet: title -> worksheet
    before,      \* the spreadsheet when overwrite_with_dataframe was called
    ow,          \* what the call of overwrite_with_dataframe did
    failed       \* the stages of the run that raised

vars ==
    <<pc, outcome, exc, pending, configFile, config, log, calls, connection,
      qres, df, sheets, before, ow, failed>>

NoCall ==
    [called |-> FALSE, existed |-> FALSE, acquired |-> FALSE, updated |-> FALSE,
     result |-> FALSE, propagated |-> "none", calls |-> <<>>, log |-> <<>>]

Init ==
    /\ pc = "load_config"
    /\ outcome = "running"
    /\ exc = "none"
    /\ pending = "none"
    /\ configFile \in ConfigFiles
    /\ config = {}
    /\ log = <<>>
    /\ calls = <<>>
    /\ connection = "none"
    /\ qres = EmptyTable
    /\ df = EmptyTable
    /\ sheets \in InitialSpreadsheets
    /\ before = sheets
    /\ ow = NoCall
    /\ failed = {}

\* An exception leaves main: the process ends with it.
Raise(e, stage) ==
    /\ pc' = "done"
    /\ outcome' = "raised"
    /\ exc' = e
    /\ failed' = failed \cup {stage}

Goto(next) ==
    /\ pc' = next
    /\ UNCHANGED <<outcome, exc, failed>>

LoadConfigSilent ==
    /\ pc = "load_config"
    /\ IF configFile.ok
       THEN /\ config' = configFile.keys
            /\ log' = Append(log, LogRecord("INFO", "load_config"))
            /\ Goto("load_query")
       ELSE /\ Raise("ConfigFileError", "load_config")
            /\ UNCHANGED <<config, log>>
    /\ UNCHANGED <<pending, configFile, calls, connection, qres, df, sheets, before, ow>>

\* config = load_config()
LoadConfig ==
    /\ pc = "load_config"
    /\ IF configFile.ok
       THEN /\ config' = configFile.keys
            /\ log' = Append(log, LogRecord("INFO", "load_config"))
            /\ Goto("load_query")
       ELSE /\ log' = Append(log, LogRecord("ERROR", "load_config"))
            /\ Raise("ConfigFileError", "load_config")
            /\ UNCHANGED config
    /\ UNCHANGED <<pending, configFile, calls, connection, qres, df, sheets, before, ow>>

\* query = load_query("query.sql"): no handler, nothing is logged.
LoadQuery ==
    /\ pc = "load_query"
    /\ \E ok \in BOOLEAN :
          IF ok THEN Goto("load_key") ELSE Raise("IOError", "load_query")
    /\ UNCHANGED <<pending, configFile, config, log, calls, connection, qres, df,
                   sheets, before, ow>>

\* load_private_key_base64: open and load_pem_private_key may raise; after the
\* success record, private_bytes and the base64 encoding may raise.  The handler
\* logs an error and re-raises.
LoadKeyStep(r) ==
    CASE r = "ok" ->
            /\ log' = Append(log, LogRecord("INFO", "load_private_key_base64"))
            /\ Goto("connect")
      [] r = "parse_fails" ->
            /\ log' = Append(log, LogRecord("ERROR", "load_private_key_base64"))
            /\ Raise("KeyLoadError", "load_key")
      [] r = "encode_fails" ->
            /\ log' = log \o <<LogRecord("INFO", "load_private_key_base64"),
                               LogRecord("ERROR", "load_private_key_base64")>>
            /\ Raise("KeyLoadError", "load_key")

\* private_key_base64 = load_private_key_base64(config["RSA_KEY_PATH"])
LoadKey ==
    /\ pc = "load_key"
    /\ IF ~HasKey(config, "RSA_KEY_PATH")
       THEN /\ Raise("KeyError", "rsa_key_lookup")
            /\ UNCHANGED log
       ELSE \E r \in {"ok", "parse_fails", "encode_fails"} : LoadKeyStep(r)
    /\ UNCHANGED <<pending, configFile, config, calls, connection, qres, df, sheets,
                   before, ow>>

\* db = SnowflakeClient(config, private_key_base64): URL(...) reads the five
\* SNOWFLAKE_ keys, engine.connect() opens the connection, USE WAREHOUSE runs on
\* it; the handler logs whatever was raised and re-raises.
ConnectStep(r) ==
    CASE r = "connect_fails" ->
            /\ calls' = Append(calls, "engine.connect")
            /\ log' = Append(log, LogRecord("ERROR", "SnowflakeClient.__init__"))
            /\ Raise("ConnectionError", "connect")
            /\ UNCHANGED connection
      [] r = "use_fails" ->
            /\ calls' = calls \o <<"engine.connect", "execute">>
            /\ connection' = "open"
            /\ log' = Append(log, LogRecord("ERROR", "SnowflakeClient.__init__"))
            /\ Raise("ConnectionError", "connect")
      [] r = "ok" ->
            /\ calls' = calls \o <<"engine.connect", "execute">>
            /\ connection' = "open"
            /\ log' = Append(log, LogRecord("INFO", "SnowflakeClient.__init__"))
            /\ Goto("fetch")

Connect ==
    /\ pc = "connect"
    /\ IF \E k \in SnowflakeKeys : ~HasKey(config, k)
       THEN /\ log' = Append(log, LogRecord("ERROR", "SnowflakeClient.__init__"))
            /\ Raise("KeyError", "snowflake_key_lookup")
            /\ UNCHANGED <<calls, connection>>
       ELSE \E r \in {"ok", "connect_fails", "use_fails"} : ConnectStep(r)
    /\ UNCHANGED <<pending, configFile, config, qres, df, sheets, before, ow>>

\* df = db.fetch_data(query), inside main's try: an exception goes to finally.
Fetch ==
    /\ pc = "fetch"
    /\ calls' = Append(calls, "read_sql")
    /\ \/ \E t \in Tables :
            /\ qres' = t
            /\ df' = t
            /\ log' = Append(log, LogRecord("INFO", "fetch_data"))
            /\ pc' = "stamp"
            /\ UNCHANGED <<pending, failed>>
       \/ /\ log' = log \o <<LogRecord("INFO", "fetch_data"), LogRecord("ERROR", "fetch_data")>>
          /\ pending' = "QueryError"
          /\ failed' = failed \cup {"fetch"}
          /\ pc' = "close"
          /\ UNCHANGED <<qres, df>>
    /\ UNCHANGED <<outcome, exc, configFile, config, connection, sheets, before, ow>>

\* df["update_date"] = date.today().isoformat(), inside main's try.
Stamp ==
    /\ pc = "stamp"
    /\ \/ /\ df' = SetUpdateDate(df, Today)
          /\ UNCHANGED <<pending, failed>>
       \/ /\ pending' = "StampError"
          /\ failed' = failed \cup {"stamp"}
          /\ UNCHANGED df
    /\ pc' = "close"
    /\ UNCHANGED <<outcome, exc, configFile, config, log, calls, connection, qres,
                   sheets, before, ow>>

CloseStepRaises(ok) ==
    /\ calls' = Append(calls, "connection.close")
    /\ IF ok
       THEN /\ connection' = "closed"
            /\ log' = Append(log, LogRecord("INFO", "close"))
            /\ failed' = failed
            /\ IF pending # "none"
               THEN /\ pc' = "done"
                    /\ outcome' = "raised"
                    /\ exc' = pending
               ELSE /\ pc' = "authorize"
                    /\ UNCHANGED <<outcome, exc>>
       ELSE /\ connection' = "close_failed"
            /\ log' = log \o <<LogRecord("INFO", "close"), LogRecord("ERROR", "close")>>
            /\ failed' = failed \cup {"close"}
            /\ pc' = "done"
            /\ outcome' = "raised"
            /\ exc' = "CloseError"

\* finally: db.close().  close logs and swallows its own failure; the exception
\* in flight, if any, then leaves main.
CloseStep(ok) ==
    /\ calls' = Append(calls, "connection.close")
    /\ IF ok
       THEN /\ connection' = "closed"
            /\ log' = Append(log, LogRecord("INFO", "close"))
            /\ failed' = failed
       ELSE /\ connection' = "close_failed"
            /\ log' = log \o <<LogRecord("INFO", "close"), LogRecord("ERROR", "close")>>
            /\ failed' = failed \cup {"close"}
    /\ IF pending # "none"
       THEN /\ pc' = "done"
            /\ outcome' = "raised"
            /\ exc' = pending
       ELSE /\ pc' = "authorize"
            /\ UNCHANGED <<outcome, exc>>

Close ==
    /\ pc = "close"
    /\ \E ok \in BOOLEAN : CloseStep(ok)
    /\ UNCHANGED <<pending, configFile, config, qres, df, sheets, before, ow>>

\* sheets_client = GoogleSheetsClient(config["GOOGLE_KEYFILE_PATH"])
Authorize ==
    /\ pc = "authorize"
    /\ IF ~HasKey(config, "GOOGLE_KEYFILE_PATH")
       THEN /\ Raise("KeyError", "keyfile_key_lookup")
            /\ UNCHANGED <<log, calls>>
       ELSE /\ calls' = Append(calls, "authorize")
            /\ \E ok \in BOOLEAN :
                  IF ok
                  THEN /\ log' = Append(log, LogRecord("INFO", "GoogleSheetsClient.__init__"))
                       /\ Goto("open")
                  ELSE /\ log' = Append(log, LogRecord("ERROR", "GoogleSheetsClient.__init__"))
                       /\ Raise("AuthError", "authorize")
    /\ UNCHANGED <<pending, configFile, config, connection, qres, df, sheets, before, ow>>

OpenSwallows ==
    /\ pc = "open"
    /\ IF ~HasKey(config, "SPREADSHEET_URL")
       THEN /\ Raise("KeyError", "url_key_lookup")
            /\ UNCHANGED <<log, calls>>
       ELSE /\ calls' = Append(calls, "open_by_url")
            /\ \E ok \in BOOLEAN :
                  IF ok
                  THEN /\ log' = Append(log, LogRecord("INFO", "get_spreadsheet_by_url"))
                       /\ Goto("overwrite")
                  ELSE /\ log' = Append(log, LogRecord("ERROR", "get_spreadsheet_by_url"))
                       /\ pc' = "overwrite"
                       /\ failed' = failed \cup {"open"}
                       /\ UNCHANGED <<outcome, exc>>
    /\ UNCHANGED <<pending, configFile, config, connection, qres, df, sheets, before, ow>>

\* spreadsheet = sheets_client.get_spreadsheet_by_url(config["SPREADSHEET_URL"])
Open ==
    /\ pc = "open"
    /\ IF ~HasKey(config, "SPREADSHEET_URL")
       THEN /\ Raise("KeyError", "url_key_lookup")
            /\ UNCHANGED <<log, calls>>
       ELSE /\ calls' = Append(calls, "open_by_url")
            /\ \E ok \in BOOLEAN :
                  IF ok
                  THEN /\ log' = Append(log, LogRecord("INFO", "get_spreadsheet_by_url"))
                       /\ Goto("overwrite")
                  ELSE /\ log' = Append(log, LogRecord("ERROR", "get_spreadsheet_by_url"))
                       /\ Raise("SpreadsheetNotFound", "open")
    /\ UNCHANGED <<pending, configFile, config, connection, qres, df, sheets, before, ow>>

\* success = manager.overwrite_with_dataframe(config["SHEET_NAME"], df)
OverwriteStep(f) ==
    LET r == OverwriteWithDataframe(sheets, SheetName, df, f)
    IN /\ before' = sheets
       /\ sheets' = r.sheets
       /\ calls' = calls \o r.calls
       /\ log' = log \o r.log
       /\ ow' = [called |-> TRUE, existed |-> SheetName \in DOMAIN sheets,
                 acquired |-> r.acquired, updated |-> r.updated, result |-> r.result,
                 propagated |-> r.propagated, calls |-> r.calls, log |-> r.log]
       /\ IF r.propagated # "none"
          THEN Raise(r.propagated, "overwrite")
          ELSE /\ pc' = "report"
               /\ failed' = IF r.result THEN failed ELSE failed \cup {"overwrite"}
               /\ UNCHANGED <<outcome, exc>>

Overwrite ==
    /\ pc = "overwrite"
    /\ IF ~HasKey(config, "SHEET_NAME")
       THEN /\ Raise("KeyError", "sheet_key_lookup")
            /\ UNCHANGED <<log, calls, sheets, before, ow>>
       ELSE \E f \in FailPoints(SheetName \in DOMAIN sheets) : OverwriteStep(f)
    /\ UNCHANGED <<pending, configFile, config, connection, qres, df>>

\* if success: logger.info(...) else: logger.warning(...); main returns.
Report ==
    /\ pc = "report"
    /\ log' = Append(log, LogRecord(IF ow.result THEN "INFO" ELSE "WARNING", "main"))
    /\ pc' = "done"
    /\ outcome' = "returned"
    /\ UNCHANGED <<exc, pending, configFile, config, calls, connection, qres, df,
                   sheets, before, ow, failed>>

Next ==
    \/ LoadConfig
    \/ LoadQuery
    \/ LoadKey
    \/ Connect
    \/ Fetch
    \/ Stamp
    \/ Close
    \/ Authorize
    \/ Open
    \/ Overwrite
    \/ Report

Spec == Init /\ [][Next]_vars

\* ------------------------------------------------------------------ claims
HasLog(level, src) == \E i \in 1..Len(log) : log[i] = LogRecord(level, src)

Count(seq, x) == Cardinality({i \in 1..Len(seq) : seq[i] = x})

\* The occupied cells of worksheet w are the column labels of t in row 1 and the
\* rows of t, in order, in the rows below, and nothing else.
HoldsExactly(w, t) ==
    /\ DOMAIN w.cells = (1..(Len(t.rows) + 1)) \X (1..Len(t.cols))
    /\ \A j \in 1..Len(t.cols) : w.cells[<<1, j>>] = t.cols[j]
    /\ \A i \in 1..Len(t.rows) : \A j \in 1..Len(t.cols) :
          w.cells[<<i + 1, j>>] = t.rows[i][j]

\* C1: overwrite_with_dataframe never lets an exception out: a failure of the
\* lookup, the clear, the creation or the update is logged as an error and the
\* call returns False; it returns True exactly when the lookup-or-create step
\* and the update both completed.
C1_NeverPropagates ==
    ow.called =>
        /\ ow.propagated = "none"
        /\ pc \in {"report", "done"}
        /\ (outcome = "raised" => "overwrite" \notin failed)
        /\ ow.result <=> (ow.acquired /\ ow.updated)
        /\ ~ow.result =>
              /\ Len(ow.log) >= 1
              /\ ow.log[Len(ow.log)] = LogRecord("ERROR", "overwrite_with_dataframe")

C1_Witness ==
    /\ ow.called
    /\ ~ow.result
    /\ ow.acquired
    /\ ow.calls[Len(ow.calls)] = "update"

\* The stages before the sheet write whose failure ends main with an exception.
FatalStages ==
    {"load_config", "load_query", "load_key", "connect", "fetch", "authorize", "open"}

\* C2: when main has ended, a failure of config load, query load, key load,
\* warehouse connect, fetch, authorize or open means main ended with an uncaught
\* exception; when the sheet write is the only one of these stages that failed,
\* main logged a warning and returned normally.
C2_OnlySheetWriteIsNonFatal ==
    pc = "done" =>
        /\ (failed \cap FatalStages # {} => outcome = "raised" /\ exc # "none")
        /\ (outcome = "returned" => failed \cap FatalStages = {})
        /\ ("overwrite" \in failed =>
               /\ outcome = "returned"
               /\ exc = "none"
               /\ log[Len(log)] = LogRecord("WARNING", "main"))

C2_Witness ==
    /\ pc = "done"
    /\ outcome = "returned"
    /\ failed = {"overwrite"}

\* C3: after a True return for a worksheet that existed before the call, the
\* worksheet's occupied cells are exactly the header row followed by the data
\* rows in order, whatever it held before; no earlier cell survives.
C3_ExistingSheetHoldsExactlyTheTable ==
    (ow.called /\ ow.result /\ ow.existed) => HoldsExactly(sheets[SheetName], df)

C3_Witness ==
    /\ ow.called
    /\ ow.result
    /\ ow.existed
    /\ before[SheetName].cells = OldBlock
    /\ Len(df.rows) = 2
    /\ sheets[SheetName].cells # before[SheetName].cells

\* C4: connect, fetch and close are invoked in that order, and a run that opened
\* a warehouse connection never ends without having invoked close on it.
C4_ConnectionAlwaysReleased ==
    /\ \A i, j \in 1..Len(calls) :
          /\ (calls[i] = "engine.connect" /\ calls[j] = "read_sql" => i < j)
          /\ (calls[i] = "read_sql" /\ calls[j] = "connection.close" => i < j)
          /\ (calls[i] = "engine.connect" /\ calls[j] = "connection.close" => i < j)
    /\ (pc = "done" /\ connection # "none") => Count(calls, "connection.close") = 1

AllCalls ==
    {"engine.connect", "execute", "read_sql", "connection.close", "authorize",
     "open_by_url", "worksheet", "clear", "add_worksheet", "update"}

WorksheetCalls == {"worksheet", "clear", "add_worksheet", "update"}

\* The network calls that read the value of key k, directly or through the
\* object built from it.
CallsNeeding(k) ==
    CASE k \in SnowflakeKeys \cup {"RSA_KEY_PATH"} -> AllCalls
      [] k = "GOOGLE_KEYFILE_PATH" -> {"authorize", "open_by_url"} \cup WorksheetCalls
      [] k = "SPREADSHEET_URL" -> {"open_by_url"} \cup WorksheetCalls
      [] k = "SHEET_NAME" -> WorksheetCalls

\* C5 (as stated): with a required key missing from the loaded config, the run
\* fails before any network call is attempted.
C5_NoNetworkCallWhenKeyMissing ==
    (configFile.ok /\ configFile.keys # RequiredKeys) =>
        /\ calls = <<>>
        /\ outcome # "returned"

\* C5 (amended): with a required key missing from the loaded config, main never
\* returns normally and no network call that needs the key is attempted: none at
\* all for a warehouse key or the RSA key path, no spreadsheet call for the
\* keyfile path, no open or worksheet call for the URL, no worksheet call for
\* the sheet name.
C5_NoDependentCallWhenKeyMissing ==
    configFile.ok =>
        \A k \in RequiredKeys \ configFile.keys :
            /\ Range(calls) \cap CallsNeeding(k) = {}
            /\ outcome # "returned"
            /\ (pc = "done" => outcome = "raised")

C5_Witness ==
    /\ pc = "done"
    /\ exc = "KeyError"
    /\ "SHEET_NAME" \notin configFile.keys
    /\ "open_by_url" \in Range(calls)

\* C6: the table handed to the sheet writer has the rows of the query result,
\* each extended by the run date, and the columns of the query result followed
\* by one more column, update_date.
C6_StampAddsOneColumn ==
    ow.called =>
        /\ Len(df.rows) = Len(qres.rows)
        /\ Len(df.cols) = Len(qres.cols) + 1
        /\ df.cols = Append(qres.cols, "update_date")
        /\ \A i \in 1..Len(qres.rows) : df.rows[i] = Append(qres.rows[i], Today)

\* C7: for a sheet name the spreadsheet lacks, add_worksheet is invoked once and
\* the worksheet it creates has max(100, rows + 1) rows and max(10, columns + 1)
\* columns, and after a True return holds the header row and the data rows; for
\* a name the spreadsheet has, no worksheet is created.
C7_NewSheetSizedAndFilled ==
    ow.called =>
        /\ ow.existed =>
              /\ Count(ow.calls, "add_worksheet") = 0
              /\ DOMAIN sheets = DOMAIN before
        /\ (~ow.existed /\ Len(ow.calls) >= 2) => Count(ow.calls, "add_worksheet") = 1
        /\ (~ow.existed /\ ow.acquired) =>
              /\ DOMAIN sheets = DOMAIN before \cup {SheetName}
              /\ SheetName \notin DOMAIN before
              /\ \A n \in DOMAIN before : sheets[n] = before[n]
              /\ sheets[SheetName].rows >= 100
              /\ sheets[SheetName].rows >= Len(df.rows) + 1
              /\ sheets[SheetName].rows \in {100, Len(df.rows) + 1}
              /\ sheets[SheetName].cols >= 10
              /\ sheets[SheetName].cols >= Len(df.cols) + 1
              /\ sheets[SheetName].cols \in {10, Len(df.cols) + 1}
        /\ (~ow.existed /\ ow.result) => HoldsExactly(sheets[SheetName], df)

C7_Witness ==
    /\ ow.called
    /\ ~ow.existed
    /\ ow.result
    /\ sheets[SheetName].rows = Len(df.rows) + 1
    /\ sheets[SheetName].rows > 100
    /\ sheets[SheetName].cols = Len(df.cols) + 1
    /\ sheets[SheetName].cols > 10

\* The handler that logs the error of each stage.
LoggerOf(stage) ==
    CASE stage = "load_config" -> "load_config"
      [] stage = "load_key" -> "load_private_key_base64"
      [] stage = "connect" -> "SnowflakeClient.__init__"
      [] stage = "snowflake_key_lookup" -> "SnowflakeClient.__init__"
      [] stage = "fetch" -> "fetch_data"

LoggedStages == {"load_config", "load_key", "connect", "snowflake_key_lookup", "fetch"}

UnloggedStages == {"load_query", "rsa_key_lookup"}

\* C8 (as stated): a run that ends with an error of config load, query-file
\* read, config key lookup, key load, connect or fetch has written an error log
\* record.
C8_EveryEarlyErrorLogged ==
    (pc = "done" /\ failed \cap (LoggedStages \cup UnloggedStages) # {}) =>
        \E i \in 1..Len(log) : log[i].level = "ERROR"

\* C8 (amended): an error of config load, private-key load, warehouse connect
\* (a missing warehouse key included) or fetch is logged as an error by the
\* function that raised it before it leaves main; an error of the query-file
\* read or of main's lookup of RSA_KEY_PATH leaves main with no error record.
C8_HandledStagesLogged ==
    pc = "done" =>
        /\ \A st \in failed \cap LoggedStages :
              /\ outcome = "raised"
              /\ HasLog("ERROR", LoggerOf(st))
        /\ \A st \in failed \cap UnloggedStages :
              /\ outcome = "raised"
              /\ \A i \in 1..Len(log) : log[i].level # "ERROR"

C8_Witness ==
    /\ pc = "done"
    /\ "load_config" \in failed
    /\ exc = "ConfigFileError"

\* C9: a failing close is logged and swallowed: after a successful fetch and
\* stamp the run goes on to the spreadsheet stages with the fetched table, and
\* after a failed fetch the exception leaving main is the fetch error.
C9_CloseFailureSwallowed ==
    "close" \in failed =>
        /\ HasLog("ERROR", "close")
        /\ exc # "CloseError"
        /\ ("fetch" \in failed => pc = "done" /\ outcome = "raised" /\ exc = "QueryError")
        /\ (failed \cap {"fetch", "stamp"} = {} =>
               /\ pc \in {"authorize", "open", "overwrite", "report", "done"}
               /\ df = SetUpdateDate(qres, Today)
               /\ (pc = "done" /\ outcome = "raised" =>
                      exc \in {"KeyError", "AuthError", "SpreadsheetNotFound"}))

C9_Witness ==
    /\ "close" \in failed
    /\ ow.called
    /\ ow.result
    /\ outcome = "returned"
    /\ Len(qres.rows) = 2

\* C10: no rollback: when the update raises after the clear succeeded, the call
\* returns False and the worksheet stays cleared; when the update raises after
\* the worksheet was created, the new worksheet stays in the spreadsheet.
C10_NoRollback ==
    (ow.called /\ ow.acquired /\ ~ow.updated) =>
        /\ ~ow.result
        /\ ow.existed => sheets[SheetName].cells = NoCells
        /\ ~ow.existed =>
              /\ SheetName \in DOMAIN sheets
              /\ SheetName \notin DOMAIN before
              /\ sheets[SheetName].cells = NoCells

C10_Witness ==
    /\ ow.called
    /\ ~ow.result
    /\ ow.existed
    /\ before[SheetName].cells = OldBlock
    /\ sheets[SheetName].cells = NoCells

====
